---- MODULE Spec2Model ----
(***************************************************************************)
(* Verification model of the Qrack core: the QUnitMulti shard/device       *)
(* orchestrator (src/src/qunitmulti.cpp) and the QBdt binary decision tree *)
(* register (src/unnamed/part_000).                                        *)
(***************************************************************************)
EXTENDS Integers, Sequences, FiniteSets, TLC

(***************************************************************************)
(* Bounds of the model.                                                    *)
(***************************************************************************)
\* number of qubits of the QUnitMulti register
NumQubits == 4
\* largest number of OpenCL devices in the device list
MaxDevices == 2
\* qubitThreshold handed to the constructor (QHybrid GPU transition)
ThresholdQubits == 3

(***************************************************************************)
(* QUnitMulti                                                              *)
(***************************************************************************)
VARIABLES
    deviceList,   \* 0-based vector of DeviceInfo [id, maxSize]
    oclDefault,   \* device a freshly made engine resides on (devID == -1)
    subEngine,    \* "HYBRID" or "OPENCL"
    shards,       \* qubit -> unit (0 is a null unit pointer)
    units,        \* unit -> [qubits, dev] (qubits == 0: not allocated)
    mlast         \* what the last QUnitMulti call did

\* the QBdt register, the register a Decompose returned, and the calls made
VARIABLES reg, dest, last, prev, sharedQReg, treeOps, steps

\* one Mtrx call run by parallel workers
VARIABLES heap, proot, pmtrx, ptarget, pexpected, nextIdx, pc, widx, wleaf, wj,
          written, presult, pjoined

\* the loop of one ApplyControlledSingle call, index by index
VARIABLE acs

\* the loop of one RedistributeQEngines call, engine by engine
VARIABLE rq

mvars == <<deviceList, oclDefault, subEngine, shards, units, mlast>>
bvars == <<reg, dest, last, prev, sharedQReg, treeOps, steps>>
pvars == <<heap, proot, pmtrx, ptarget, pexpected, nextIdx, pc, widx, wleaf, wj,
           written, presult, pjoined>>
vars == <<mvars, bvars, pvars, acs, rq>>

Qubits == 0 .. (NumQubits - 1)
UnitIds == 1 .. NumQubits
DeviceSizes == {2, 2 ^ (NumQubits - 2), 2 ^ NumQubits}

pow2(n) == 2 ^ n

DevCount == Len(deviceList)
\* deviceList[i] of the code, i counted from 0
Dev(i) == deviceList[i + 1]

\* GetMaxQPower of a unit
GetMaxQPower(us, u) == pow2(us[u].qubits)

\* the units some shard refers to
LiveUnits(sh) == {sh[q] : q \in Qubits} \ {0}

\* std::find_if over deviceList and std::distance from begin()
RECURSIVE FindDevice(_, _)
FindDevice(i, id) ==
    IF i >= DevCount THEN DevCount
    ELSE IF Dev(i).id = id THEN i
    ELSE FindDevice(i + 1, id)

\* the loop of GetQInfos over the shards, before the sort
RECURSIVE CollectQInfos(_, _, _, _)
CollectQInfos(q, sh, us, qinfos) ==
    IF q >= NumQubits THEN qinfos
    ELSE IF sh[q] # 0 /\ \A k \in 1 .. Len(qinfos) : qinfos[k].unit # sh[q]
         THEN CollectQInfos(q + 1, sh, us,
                  Append(qinfos, [unit |-> sh[q],
                                  deviceIndex |-> FindDevice(0, us[sh[q]].dev)]))
         ELSE CollectQInfos(q + 1, sh, us, qinfos)

\* A sequence is in descending order of engine size.
IsDescending(us, s) ==
    \A k \in 1 .. (Len(s) - 1) :
        GetMaxQPower(us, s[k].unit) >= GetMaxQPower(us, s[k + 1].unit)

\* QEngineInfo::operator<: by the size of the engine
QEngineInfoLess(us, a, b) == GetMaxQPower(us, a.unit) < GetMaxQPower(us, b.unit)

\* std::sort over the reverse iterators: the sequences that hold each element
\* of set S once, none before an element it is less than
RECURSIVE SortedOrders(_, _)
SortedOrders(us, S) ==
    IF S = {} THEN {<<>>}
    ELSE LET top == {x \in S : \A y \in S : ~QEngineInfoLess(us, x, y)}
         IN  UNION {{<<x>> \o t : t \in SortedOrders(us, S \ {x})} : x \in top}

Range(s) == {s[k] : k \in 1 .. Len(s)}

\* GetQInfos without the sort: the entries in the order of the shards
GetQInfos_Unsorted(sh, us) == {CollectQInfos(0, sh, us, <<>>)}

\* GetQInfos: every result std::sort may give (it is not stable, and the order
\* of engines of equal size is left to QEngineInfo's comparison).
GetQInfos(sh, us) == SortedOrders(us, Range(CollectQInfos(0, sh, us, <<>>)))

\* the condition under which RedistributeQEngines leaves an engine alone
SkipUnit(us, u) ==
    \/ u = 0
    \/ GetMaxQPower(us, u) <= 2
    \/ (subEngine = "HYBRID" /\ us[u].qubits < ThresholdQubits)

\* "Find the device with the lowest load": the loop over j
RECURSIVE LowestLoad(_, _, _, _)
LowestLoad(j, pick, devSizes, size) ==
    IF j >= DevCount THEN pick
    ELSE IF devSizes[j] < pick.sz /\ (devSizes[j] + size) <= Dev(j).maxSize
         THEN LowestLoad(j + 1, [devID |-> Dev(j).id, devIndex |-> j, sz |-> devSizes[j]],
                         devSizes, size)
         ELSE LowestLoad(j + 1, pick, devSizes, size)

\* "If the default OpenCL device has equal load to the least, we prefer the default."
PreferDefault(pick, devSizes) ==
    IF devSizes[0] < pick.sz
    THEN [devID |-> Dev(0).id, devIndex |-> 0, sz |-> devSizes[0]]
    ELSE pick

\* the body of the loop over qinfos; st is [us, devSizes]
PlaceUnit(st, info) ==
    LET u == info.unit
        size == GetMaxQPower(st.us, u)
        cur == [devID |-> st.us[u].dev, devIndex |-> info.deviceIndex,
                sz |-> st.devSizes[info.deviceIndex]]
    IN  IF SkipUnit(st.us, u) THEN st
        ELSE IF cur.sz > 0
        THEN LET pick == LowestLoad(0, PreferDefault(cur, st.devSizes), st.devSizes, size)
             IN  [us |-> [st.us EXCEPT ![u].dev = pick.devID],
                  devSizes |-> [st.devSizes EXCEPT ![pick.devIndex] = @ + size]]
        ELSE [us |-> st.us,
              devSizes |-> [st.devSizes EXCEPT ![cur.devIndex] = @ + size]]

RECURSIVE PlaceAll(_, _, _)
PlaceAll(st, qinfos, i) ==
    IF i > Len(qinfos) THEN st
    ELSE PlaceAll(PlaceUnit(st, qinfos[i]), qinfos, i + 1)

\* RedistributeQEngines, for one outcome qinfos of GetQInfos
RedistributeQEngines(us, qinfos) ==
    IF DevCount = 1 THEN us
    ELSE PlaceAll([us |-> us, devSizes |-> [d \in 0 .. (DevCount - 1) |-> 0]],
                  qinfos, 1).us

\* the capacity of the device a unit resides on
GetMaxSize(us, u) == Dev(FindDevice(0, us[u].dev)).maxSize

\* the distinct units of a set of bits
UnitsOf(sh, bits) == {sh[b] : b \in bits}

RECURSIVE SumQubits(_, _)
SumQubits(us, S) ==
    IF S = {} THEN 0
    ELSE LET u == CHOOSE x \in S : TRUE
         IN  us[u].qubits + SumQubits(us, S \ {u})

\* mutant of CapacityFallback: the first engine is never moved
CapacityFallback_Never(us, sh, first, bits) == us

\* "If device capacity is exceeded, put on default device"
CapacityFallback(us, sh, first, bits) ==
    LET unit1 == sh[first]
    IN  IF Dev(0).id # us[unit1].dev
           /\ pow2(SumQubits(us, UnitsOf(sh, bits))) > GetMaxSize(us, unit1)
        THEN [us EXCEPT ![unit1].dev = Dev(0).id]
        ELSE us

\* QUnit::EntangleInCurrentBasis: the units of the bits are composed into the
\* unit of the first bit, which keeps its device.
BaseEntangleUnits(us, sh, first, bits) ==
    LET unit1 == sh[first]
        merged == UnitsOf(sh, bits)
    IN  [u \in UnitIds |->
            IF u = unit1 THEN [us[u] EXCEPT !.qubits = SumQubits(us, merged)]
            ELSE IF u \in merged THEN [qubits |-> 0, dev |-> 0]
            ELSE us[u]]

BaseEntangleShards(sh, first, bits) ==
    [q \in Qubits |-> IF sh[q] \in UnitsOf(sh, bits) THEN sh[first] ELSE sh[q]]

\* Units are shared pointers in the code; the model names each unit after the
\* lowest qubit it holds, so that one partition has one representation.
UnitName(sh, u) == 1 + (CHOOSE q \in Qubits : sh[q] = u /\ \A r \in Qubits : sh[r] = u => q <= r)

CanonUnits(us, sh) ==
    [v \in UnitIds |->
        IF \E u \in LiveUnits(sh) : UnitName(sh, u) = v
        THEN us[CHOOSE u \in LiveUnits(sh) : UnitName(sh, u) = v]
        ELSE [qubits |-> 0, dev |-> 0]]

CanonShards(sh) == [q \in Qubits |-> IF sh[q] = 0 THEN 0 ELSE UnitName(sh, sh[q])]

\* QUnitMulti::EntangleInCurrentBasis(first, last): bits is the whole range,
\* first its first element.
EntangleInCurrentBasis(first, bits) ==
    /\ first \in bits
    /\ \A b \in bits : shards[b] # 0
    /\ IF Cardinality(UnitsOf(shards, bits)) = 1
       THEN /\ mlast' = [op |-> "entangled", unit |-> shards[first], exceeded |-> FALSE,
                         moved |-> FALSE, largest |-> FALSE, redistributed |-> FALSE,
                         called |-> FALSE]
            /\ UNCHANGED <<shards, units>>
       ELSE LET size == pow2(SumQubits(units, UnitsOf(shards, bits)))
                exceeded == size > GetMaxSize(units, shards[first])
                us1 == CapacityFallback(units, shards, first, bits)
                us2 == BaseEntangleUnits(us1, shards, first, bits)
                sh2 == BaseEntangleShards(shards, first, bits)
            IN  /\ units' \in {CanonUnits(RedistributeQEngines(us2, qinfos), sh2) :
                                   qinfos \in GetQInfos(sh2, us2)}
                /\ shards' = CanonShards(sh2)
                /\ mlast' = [op |-> "entangle", unit |-> UnitName(sh2, shards[first]),
                             exceeded |-> exceeded,
                             moved |-> us1 # units,
                             largest |-> \A u \in LiveUnits(sh2) \ {shards[first]} :
                                             us2[u].qubits < us2[shards[first]].qubits,
                             redistributed |-> DevCount > 1, called |-> TRUE]
    /\ UNCHANGED <<deviceList, oclDefault, subEngine>>
    /\ UNCHANGED <<bvars, pvars, acs, rq>>

\* the least unit id no shard uses
FreshUnit(sh) == CHOOSE u \in UnitIds : u \notin LiveUnits(sh) /\
                     \A v \in UnitIds : v \notin LiveUnits(sh) => u <= v

\* QUnit::SeparateBit: the qubit gets an engine of its own, made by MakeEngine,
\* and is disposed from the unit it was in.
BaseSeparateBit(us, sh, qubit) ==
    LET old == sh[qubit]
        new == FreshUnit(sh)
    IN  [us |-> [us EXCEPT ![old].qubits = @ - 1,
                           ![new] = [qubits |-> 1, dev |-> oclDefault]],
         sh |-> [sh EXCEPT ![qubit] = new]]

\* QUnitMulti::SeparateBit(value, qubit)
SeparateBit(qubit) ==
    /\ shards[qubit] # 0
    /\ units[shards[qubit]].qubits > 1
    /\ LET b == BaseSeparateBit(units, shards, qubit)
       IN  /\ units' \in {CanonUnits(RedistributeQEngines(b.us, qinfos), b.sh) :
                              qinfos \in GetQInfos(b.sh, b.us)}
           /\ shards' = CanonShards(b.sh)
           /\ mlast' = [op |-> "separate", unit |-> UnitName(b.sh, b.sh[qubit]),
                        exceeded |-> FALSE, moved |-> FALSE,
                        largest |-> FALSE, redistributed |-> DevCount > 1, called |-> TRUE]
    /\ UNCHANGED <<deviceList, oclDefault, subEngine>>
    /\ UNCHANGED <<bvars, pvars, acs, rq>>

\* the qubits the register holds: the shards vector is shards[0 .. n - 1]
GetQubitCount(sh) == Cardinality({q \in Qubits : sh[q] # 0})

\* QUnit::Detach(start, length, dest): the shards of the range leave the
\* vector (the shards after them move down), and each engine loses the qubits
\* it held in the range.
BaseDetach(us, sh, start, length) ==
    LET gone == start .. (start + length - 1)
    IN  [us |-> [u \in UnitIds |->
                    LET left == us[u].qubits - Cardinality({q \in gone : sh[q] = u})
                    IN  IF left = 0 THEN [qubits |-> 0, dev |-> 0]
                        ELSE [us[u] EXCEPT !.qubits = left]],
         sh |-> [q \in Qubits |->
                    IF q < start THEN sh[q]
                    ELSE IF q + length < NumQubits THEN sh[q + length]
                    ELSE 0]]

\* QUnitMulti::Detach(start, length, dest)
Detach(start, length) ==
    /\ length >= 1 /\ start + length <= GetQubitCount(shards)
    /\ length < GetQubitCount(shards)
    /\ LET b == BaseDetach(units, shards, start, length)
       IN  /\ units' \in {CanonUnits(RedistributeQEngines(b.us, qinfos), b.sh) :
                              qinfos \in GetQInfos(b.sh, b.us)}
           /\ shards' = CanonShards(b.sh)
           /\ mlast' = [op |-> "detach", unit |-> 0, exceeded |-> FALSE, moved |-> FALSE,
                        largest |-> FALSE, redistributed |-> DevCount > 1, called |-> TRUE]
    /\ UNCHANGED <<deviceList, oclDefault, subEngine>>
    /\ UNCHANGED <<bvars, pvars, acs, rq>>

\* QUnitMulti::Clone(): RevertBasis2Qb on every qubit, a new QUnitMulti, and
\* CloneBody; the register itself keeps its shards and its engines.
Clone ==
    /\ mlast' = [op |-> "clone", unit |-> 0, exceeded |-> FALSE, moved |-> FALSE,
                 largest |-> FALSE, redistributed |-> FALSE, called |-> FALSE]
    /\ UNCHANGED <<deviceList, oclDefault, subEngine, shards, units>>
    /\ UNCHANGED <<bvars, pvars, acs, rq>>

\* the sort of the constructor: deviceList[1..] in descending order of maxSize
DescendingTail(dl) ==
    \A k \in 2 .. (Len(dl) - 1) : dl[k].maxSize >= dl[k + 1].maxSize

\* QUnitMulti::QUnitMulti with an empty devList: one DeviceInfo per device
\* context, the default device swapped to the front, the rest sorted.
ConstructDeviceList(maxSizes, defaultDeviceID) ==
    LET n == Len(maxSizes)
        plain == [k \in 1 .. n |-> [id |-> k - 1, maxSize |-> maxSizes[k]]]
        swapped == [k \in 1 .. n |->
                       IF k = 1 THEN plain[defaultDeviceID + 1]
                       ELSE IF k = defaultDeviceID + 1 THEN plain[1]
                       ELSE plain[k]]
    IN  {dl \in [1 .. n -> Range(swapped)] :
            /\ dl[1] = swapped[1]
            /\ \A a, b \in 1 .. n : a # b => dl[a].id # dl[b].id
            /\ DescendingTail(dl)}

MInit ==
    /\ \E n \in 1 .. MaxDevices : \E maxSizes \in [1 .. n -> DeviceSizes] :
       \E ocl \in 0 .. (n - 1) :
           /\ oclDefault = ocl
           /\ deviceList \in ConstructDeviceList(maxSizes, ocl)
    /\ subEngine \in {"HYBRID", "OPENCL"}
    /\ shards = [q \in Qubits |-> q + 1]
    /\ units = [u \in UnitIds |-> [qubits |-> 1, dev |-> oclDefault]]
    /\ mlast = [op |-> "init", unit |-> 0, exceeded |-> FALSE, moved |-> FALSE,
                largest |-> FALSE, redistributed |-> FALSE, called |-> FALSE]

MNext ==
    \/ \E first \in Qubits : \E bits \in SUBSET Qubits :
           /\ Cardinality(bits) >= 2
           /\ EntangleInCurrentBasis(first, bits)
    \/ \E qubit \in Qubits : SeparateBit(qubit)
    \/ \E start \in Qubits : \E length \in 1 .. NumQubits : Detach(start, length)
    \/ Clone


(***************************************************************************)
(* Claims about QUnitMulti                                                 *)
(***************************************************************************)
\* an engine fits the device it resides on
Fits(u) == GetMaxQPower(units, u) <= GetMaxSize(units, u)

\* C1: after RedistributeQEngines has run over a device list of more than one
\* device, every engine resides on a device whose maxSize is at least the
\* engine's size.
C1_EveryEngineFits ==
    mlast.redistributed => \A u \in LiveUnits(shards) : Fits(u)

\* C8 as stated: whenever EntangleInCurrentBasis merged several engines into one
\* that exceeds the capacity of the first engine's device, the merged engine is
\* on the default device when the call returns.
C8_MergedOnDefault ==
    (mlast.op = "entangle" /\ mlast.exceeded) => units[mlast.unit].dev = Dev(0).id

\* C8 amended: the same, for a merged engine that is larger than every other
\* engine of the register (as when all bits are entangled); RedistributeQEngines
\* may move a merged engine that is not the first it places.
C8_LargestMergedOnDefault ==
    (mlast.op = "entangle" /\ mlast.exceeded /\ mlast.largest)
        => units[mlast.unit].dev = Dev(0).id

\* C8 witness: the first engine was moved to the default device, and all bits
\* are in one engine too large for either of two devices.
C8_Witness ==
    /\ mlast.op = "entangle" /\ mlast.exceeded /\ mlast.largest /\ mlast.moved
    /\ DevCount = 2
    /\ units[mlast.unit].qubits = NumQubits
    /\ \A i \in 0 .. 1 : Dev(i).maxSize < pow2(NumQubits)

(***************************************************************************)
(* Amplitudes.  The gates of the model are real, so every scale is a real  *)
(* number of the field Q(sqrt 2), kept exactly: <<p, q, d>> is             *)
(* (p + q*sqrt(2)) / d with d > 0 in lowest terms.  <<0, 0, 0>> is the     *)
(* floating point NaN (0/0), which every operation propagates and no       *)
(* comparison accepts.                                                     *)
(***************************************************************************)
ZERO_CMPLX == <<0, 0, 1>>
ONE_CMPLX == <<1, 0, 1>>
NaN == <<0, 0, 0>>
\* 1 / sqrt(2)
SQRT1_2 == <<0, 1, 2>>

IsNaN(x) == x[3] = 0

IAbs(n) == IF n < 0 THEN -n ELSE n

RECURSIVE GCD(_, _)
GCD(a, b) == IF b = 0 THEN a ELSE GCD(b, a % b)

Reduce(p, q, d) ==
    IF d = 0 THEN NaN
    ELSE LET g == GCD(GCD(IAbs(p), IAbs(q)), IAbs(d))
             sg == IF d < 0 THEN -1 ELSE 1
         IN  <<(sg * p) \div g, (sg * q) \div g, (sg * d) \div g>>

NAdd(x, y) ==
    IF IsNaN(x) \/ IsNaN(y) THEN NaN
    ELSE Reduce(x[1] * y[3] + y[1] * x[3], x[2] * y[3] + y[2] * x[3], x[3] * y[3])

NNeg(x) == <<-x[1], -x[2], x[3]>>

NMul(x, y) ==
    IF IsNaN(x) \/ IsNaN(y) THEN NaN
    ELSE Reduce(x[1] * y[1] + 2 * x[2] * y[2], x[1] * y[2] + x[2] * y[1], x[3] * y[3])

\* x / y; a division by zero gives NaN (the only one the code can make is 0/0)
NDiv(x, y) ==
    IF IsNaN(x) \/ IsNaN(y) \/ (y[1] = 0 /\ y[2] = 0) THEN NaN
    ELSE NMul(x, Reduce(y[3] * y[1], -(y[3] * y[2]), y[1] * y[1] - 2 * y[2] * y[2]))

\* the sign of p + q*sqrt(2): -1, 0 or 1 (0 for NaN)
NSign(x) ==
    LET p == x[1]
        q == x[2]
    IN  IF IsNaN(x) \/ (p = 0 /\ q = 0) THEN 0
        ELSE IF p >= 0 /\ q >= 0 THEN 1
        ELSE IF p <= 0 /\ q <= 0 THEN -1
        ELSE IF p > 0 THEN (IF p * p > 2 * q * q THEN 1 ELSE -1)
        ELSE (IF 2 * q * q > p * p THEN 1 ELSE -1)

\* comparisons, false on NaN as in IEEE arithmetic
NLess(x, y) == ~IsNaN(x) /\ ~IsNaN(y) /\ NSign(NAdd(y, NNeg(x))) = 1
NLeq(x, y) == ~IsNaN(x) /\ ~IsNaN(y) /\ NSign(NAdd(y, NNeg(x))) >= 0

\* std::abs of a scale
abs(x) == IF NSign(x) < 0 THEN NNeg(x) ELSE x

\* std::norm: the squared magnitude
norm(x) == NMul(x, x)

\* IS_NORM_0: norm(c) <= FP_NORM_EPSILON, exact here
IS_NORM_0(x) == x = ZERO_CMPLX

clampProb(x) ==
    IF NLess(x, ZERO_CMPLX) THEN ZERO_CMPLX
    ELSE IF NLess(ONE_CMPLX, x) THEN ONE_CMPLX
    ELSE x

\* the outcomes of "result = (Rand() <= oneChance)" and the two tests before it
SampleBit(oneChance) ==
    IF NLeq(ONE_CMPLX, oneChance) THEN {1}
    ELSE IF NLeq(oneChance, ZERO_CMPLX) THEN {0}
    ELSE IF IsNaN(oneChance) THEN {0}
    ELSE {0, 1}

SelectBit(perm, bit) == (perm \div pow2(bit)) % 2

\* 2x2 matrices, row by row: mtrx[1..4] is mtrx[0..3] of the code
HadamardMtrx == <<SQRT1_2, SQRT1_2, SQRT1_2, NNeg(SQRT1_2)>>
PauliXMtrx == <<ZERO_CMPLX, ONE_CMPLX, ONE_CMPLX, ZERO_CMPLX>>

(***************************************************************************)
(* The dense engine of an attached leaf: the sequence of its amplitudes,   *)
(* amplitude k at position k + 1.                                          *)
(***************************************************************************)
RECURSIVE Log2(_)
Log2(n) == IF n <= 1 THEN 0 ELSE 1 + Log2(n \div 2)

EngQubitCount(eng) == Log2(Len(eng))

\* CreateQuantumInterface(..., qbCount, perm, ...)
EngBasis(qbCount, perm) ==
    [k \in 1 .. pow2(qbCount) |-> IF k - 1 = perm % pow2(qbCount) THEN ONE_CMPLX ELSE ZERO_CMPLX]

\* GetAmplitude of the engine; a null engine (a crash in the code) reads as NaN
EngGetAmplitude(eng, perm) == IF eng = <<>> THEN NaN ELSE eng[(perm % Len(eng)) + 1]

EngScale(eng, c) == [k \in 1 .. Len(eng) |-> NMul(c, eng[k])]

\* MCMtrx of the engine: the 2x2 matrix on qubit target of the amplitudes
\* whose controls are all set
EngMCMtrx(eng, controls, mtrx, target) ==
    [k \in 1 .. Len(eng) |->
        LET i == k - 1
            i0 == i - SelectBit(i, target) * pow2(target)
            i1 == i0 + pow2(target)
        IN  IF \E c \in controls : SelectBit(i, c) = 0 THEN eng[k]
            ELSE IF SelectBit(i, target) = 0
            THEN NAdd(NMul(mtrx[1], eng[i0 + 1]), NMul(mtrx[2], eng[i1 + 1]))
            ELSE NAdd(NMul(mtrx[3], eng[i0 + 1]), NMul(mtrx[4], eng[i1 + 1]))]

\* Mtrx of the engine
EngMtrx(eng, mtrx, target) == EngMCMtrx(eng, {}, mtrx, target)

\* MAll of the engine: the permutations it may measure
EngMAllOutcomes(eng) ==
    LET nz == {k \in 0 .. (Len(eng) - 1) : ~IS_NORM_0(eng[k + 1])}
    IN  IF nz = {} THEN {0} ELSE nz

(***************************************************************************)
(* Nodes.  A node is [scale, branches, qReg]: branches is <<>> (null       *)
(* pointers) or the two children, branches[bit + 1] for branches[bit];     *)
(* qReg is <<>> for a QBdtNode and the engine for a QBdtQInterfaceNode.    *)
(***************************************************************************)
MakeNode(scale, branches, qReg) == [scale |-> scale, branches |-> branches, qReg |-> qReg]

\* std::make_shared<QBdtNode>(scale)
LeafNode(scale) == MakeNode(scale, <<>>, <<>>)

\* a node after SetZero, and the default QBdtQInterfaceNode
ZeroNode == LeafNode(ZERO_CMPLX)

\* leaf->branches[bit]; a null child reads as the zero node
Br(node, bit) == IF node.branches = <<>> THEN ZeroNode ELSE node.branches[bit + 1]

SetBr(node, bit, child) ==
    IF node.branches = <<>> THEN node
    ELSE MakeNode(node.scale,
                  IF bit = 0 THEN <<child, Br(node, 1)>> ELSE <<Br(node, 0), child>>,
                  node.qReg)

IsZeroVec(vec) == \A k \in 1 .. Len(vec) : IS_NORM_0(vec[k])

\* One level of Prune: both children zero make the node zero; two nonzero
\* children give the scale of the dominant one to the parent, so that the
\* dominant child has scale 1 (equal children become one shared node).
PruneNode(node) ==
    IF IS_NORM_0(node.scale) THEN ZeroNode
    ELSE IF node.branches = <<>> THEN node
    ELSE LET b0 == IF IS_NORM_0(Br(node, 0).scale) THEN ZeroNode ELSE Br(node, 0)
             b1 == IF IS_NORM_0(Br(node, 1).scale) THEN ZeroNode ELSE Br(node, 1)
         IN  IF b0 = ZeroNode /\ b1 = ZeroNode THEN ZeroNode
             ELSE IF b0 = ZeroNode \/ b1 = ZeroNode
             THEN MakeNode(node.scale, <<b0, b1>>, node.qReg)
             ELSE LET fac == IF NLeq(abs(b1.scale), abs(b0.scale)) THEN b0.scale ELSE b1.scale
                  IN  MakeNode(NMul(node.scale, fac),
                               <<[b0 EXCEPT !.scale = NDiv(b0.scale, fac)],
                                 [b1 EXCEPT !.scale = NDiv(b1.scale, fac)]>>,
                               node.qReg)

\* QBdtNode::Prune(depth)
RECURSIVE Prune(_, _)
Prune(node, depth) ==
    IF depth = 0 THEN node
    ELSE IF IS_NORM_0(node.scale) THEN ZeroNode
    ELSE IF node.branches = <<>> THEN node
    ELSE PruneNode(MakeNode(node.scale,
                            <<Prune(Br(node, 0), depth - 1), Prune(Br(node, 1), depth - 1)>>,
                            node.qReg))

\* QBdtNode::Branch: the children are replaced by shallow clones of their own;
\* as a value the node is the same.
Branch(node) == node

\* the entries of vec whose lowest index bit is bit
HalfVec(vec, bit) == [k \in 1 .. (Len(vec) \div 2) |-> vec[2 * (k - 1) + bit + 1]]

\* the pruned subtree of depth levels over engines that holds the amplitudes vec
RECURSIVE BuildSub(_, _)
BuildSub(vec, depth) ==
    IF depth = 0
    THEN IF Len(vec) = 1 THEN LeafNode(vec[1])
         ELSE IF IsZeroVec(vec) THEN ZeroNode
         ELSE MakeNode(ONE_CMPLX, <<>>, vec)
    ELSE PruneNode(MakeNode(ONE_CMPLX,
                            <<BuildSub(HalfVec(vec, 0), depth - 1),
                              BuildSub(HalfVec(vec, 1), depth - 1)>>,
                            <<>>))

\* the descent of GetAmplitude below node: scale is the product so far, j the
\* depth of node, depth the depth of the leaves
RECURSIVE AmpLoop(_, _, _, _, _)
AmpLoop(leaf, scale, j, depth, perm) ==
    IF j < depth
    THEN IF IS_NORM_0(scale) THEN scale
         ELSE LET next == Br(leaf, SelectBit(perm, j))
              IN  AmpLoop(next, NMul(scale, next.scale), j + 1, depth, perm)
    ELSE IF ~IS_NORM_0(scale) /\ leaf.qReg # <<>>
         THEN NMul(scale, EngGetAmplitude(leaf.qReg, perm \div pow2(depth)))
         ELSE scale

\* the amplitudes of the subtree of node: depth levels, then aqb engine qubits
SubAmps(node, depth, aqb) ==
    [k \in 1 .. pow2(depth + aqb) |-> AmpLoop(node, node.scale, 0, depth, k - 1)]

\* QBdtNode::Apply2x2(mtrx, depth): the matrix acts on the two children as
\* sub-state vectors of depth - 1 levels (over engines of aqb qubits).
Apply2x2(node, mtrx, depth, aqb) ==
    LET v0 == SubAmps(Br(node, 0), depth - 1, aqb)
        v1 == SubAmps(Br(node, 1), depth - 1, aqb)
        w0 == [k \in 1 .. Len(v0) |-> NAdd(NMul(mtrx[1], v0[k]), NMul(mtrx[2], v1[k]))]
        w1 == [k \in 1 .. Len(v0) |-> NAdd(NMul(mtrx[3], v0[k]), NMul(mtrx[4], v1[k]))]
    IN  MakeNode(node.scale, <<BuildSub(w0, depth - 1), BuildSub(w1, depth - 1)>>, node.qReg)

(***************************************************************************)
(* The QBdt register: [root, qubitCount, bdtQubitCount,                    *)
(* attachedQubitCount, isStateVec].                                        *)
(***************************************************************************)
SetQubitCount(r, qb, aqb) ==
    [r EXCEPT !.qubitCount = qb, !.attachedQubitCount = aqb, !.bdtQubitCount = qb - aqb]

MakeQInterfaceNode(scale, qbCount, perm) == MakeNode(scale, <<>>, EngBasis(qbCount, perm))

\* the branches SetPermutation gives the node at depth qubit
RECURSIVE PermBranches(_, _, _, _)
PermBranches(r, initState, qubit, maxQubit) ==
    LET bit == SelectBit(initState, qubit)
    IN  IF qubit < maxQubit
        THEN LET on == MakeNode(ONE_CMPLX, PermBranches(r, initState, qubit + 1, maxQubit), <<>>)
                 off == LeafNode(ZERO_CMPLX)
             IN  IF bit = 1 THEN <<off, on>> ELSE <<on, off>>
        ELSE IF r.attachedQubitCount > 0
        THEN LET on == MakeQInterfaceNode(ONE_CMPLX, r.attachedQubitCount,
                                          initState \div pow2(r.bdtQubitCount))
             IN  IF bit = 1 THEN <<ZeroNode, on>> ELSE <<on, ZeroNode>>
        ELSE <<>>

\* SetPermutation with branches[bit] and branches[bit ^ 1] exchanged: the
\* scale 1 goes to the branch the bit does not select
SetPermutation_BranchesExchanged(r0, initState) ==
    LET r == IF r0.isStateVec
             THEN [SetQubitCount(r0, r0.qubitCount, 0) EXCEPT !.isStateVec = FALSE]
             ELSE r0
        maxQubit == IF r.attachedQubitCount > 0 THEN r.bdtQubitCount - 1 ELSE r.bdtQubitCount
        flipped == initState - (initState % pow2(r.bdtQubitCount))
                   + (pow2(r.bdtQubitCount) - 1 - (initState % pow2(r.bdtQubitCount)))
    IN  IF r.attachedQubitCount > 0 /\ r.bdtQubitCount = 0
        THEN [r EXCEPT !.root = MakeQInterfaceNode(ONE_CMPLX, r.attachedQubitCount, initState)]
        ELSE [r EXCEPT !.root = MakeNode(ONE_CMPLX, PermBranches(r, flipped, 0, maxQubit), <<>>)]

\* QBdt::SetPermutation(initState), phaseFac = ONE_CMPLX (randGlobalPhase off)
SetPermutation(r0, initState) ==
    LET r == IF r0.isStateVec
             THEN [SetQubitCount(r0, r0.qubitCount, 0) EXCEPT !.isStateVec = FALSE]
             ELSE r0
        maxQubit == IF r.attachedQubitCount > 0 THEN r.bdtQubitCount - 1 ELSE r.bdtQubitCount
    IN  IF r.attachedQubitCount > 0 /\ r.bdtQubitCount = 0
        THEN [r EXCEPT !.root = MakeQInterfaceNode(ONE_CMPLX, r.attachedQubitCount, initState)]
        ELSE [r EXCEPT !.root = MakeNode(ONE_CMPLX, PermBranches(r, initState, 0, maxQubit), <<>>)]

\* the constructor
NewQBdt(qBitCount, initState) ==
    SetPermutation([root |-> ZeroNode, qubitCount |-> qBitCount, bdtQubitCount |-> qBitCount,
                    attachedQubitCount |-> 0, isStateVec |-> FALSE], initState)

\* QBdt::GetAmplitude(perm)
GetAmplitude(r, perm) ==
    IF r.isStateVec THEN EngGetAmplitude(r.root.qReg, perm)
    ELSE AmpLoop(r.root, r.root.scale, 0, r.bdtQubitCount, perm)

\* QBdt::ProbAll(perm)
ProbAll(r, perm) ==
    IF r.isStateVec THEN norm(EngGetAmplitude(r.root.qReg, perm))
    ELSE clampProb(norm(AmpLoop(r.root, r.root.scale, 0, r.bdtQubitCount, perm)))

\* the loop of MAll from depth i on: the set of [node, result] it can end with
RECURSIVE MAllLoop(_, _, _)
MAllLoop(leaf0, i, r) ==
    IF i < r.bdtQubitCount
    THEN LET leaf == Branch(leaf0)
             oneChance == clampProb(norm(Br(leaf, 1).scale))
         IN  UNION {
                 {[node |-> IF leaf.branches = <<>> THEN leaf
                            ELSE MakeNode(leaf.scale,
                                          IF bitResult = 1 THEN <<ZeroNode, sub.node>>
                                          ELSE <<sub.node, ZeroNode>>,
                                          leaf.qReg),
                   result |-> sub.result + bitResult * pow2(i)]
                  : sub \in MAllLoop([Br(leaf, bitResult) EXCEPT !.scale = ONE_CMPLX], i + 1, r)}
                 : bitResult \in SampleBit(oneChance)}
    ELSE IF r.bdtQubitCount < r.qubitCount /\ leaf0.qReg # <<>>
    THEN {[node |-> [leaf0 EXCEPT !.qReg = EngBasis(EngQubitCount(leaf0.qReg), perm)],
           result |-> perm * pow2(r.bdtQubitCount)]
          : perm \in EngMAllOutcomes(leaf0.qReg)}
    ELSE {[node |-> leaf0, result |-> 0]}

\* MAll without the bits the engine of the attached leaf measures
MAll_TreeBitsOnly(r) ==
    IF r.isStateVec
    THEN {[reg |-> SetPermutation(SetQubitCount(r, r.qubitCount, 0), toRet), result |-> toRet]
          : toRet \in EngMAllOutcomes(r.root.qReg)}
    ELSE {[reg |-> [r EXCEPT !.root = m.node], result |-> m.result % pow2(r.bdtQubitCount)]
          : m \in MAllLoop(r.root, 0, r)}

\* QBdt::MAll(): the set of [reg, result] it can end with
MAll(r) ==
    IF r.isStateVec
    THEN {[reg |-> SetPermutation(SetQubitCount(r, r.qubitCount, 0), toRet), result |-> toRet]
          : toRet \in EngMAllOutcomes(r.root.qReg)}
    ELSE {[reg |-> [r EXCEPT !.root = m.node], result |-> m.result] : m \in MAllLoop(r.root, 0, r)}

\* i & mask
RECURSIVE BitAnd(_, _)
BitAnd(a, b) ==
    IF a = 0 \/ b = 0 THEN 0
    ELSE (a % 2) * (b % 2) + 2 * BitAnd(a \div 2, b \div 2)

SetMax(S) == CHOOSE x \in S : \A y \in S : y <= x

\* QBdt::GetTraversal(getLambda): the scales handed to getLambda, for
\* i = 0 .. bdtMaxQPower - 1 (entry i + 1 is the scale of index i)
GetTraversal(r) ==
    [k \in 1 .. pow2(r.bdtQubitCount) |->
        LET i == k - 1
            scale == AmpLoop(r.root, r.root.scale, 0, r.bdtQubitCount, i)
        IN  scale]

\* QBdt::GetQuantumState(state): the buffer state after the call; the lambda
\* writes state[i] for the indices GetTraversal visits
GetQuantumState(r, state) ==
    LET t == GetTraversal(r)
    IN  [k \in 1 .. Len(state) |-> IF k <= Len(t) THEN t[k] ELSE state[k]]

\* QBdt::GetProbs(outputProbs): the buffer outputProbs after the call
GetProbs(r, outputProbs) ==
    LET t == GetTraversal(r)
    IN  [k \in 1 .. Len(outputProbs) |-> IF k <= Len(t) THEN norm(t[k]) ELSE outputProbs[k]]

\* the buffers of n qubits a caller hands to GetQuantumState and GetProbs
OutBuffers(n) == {[k \in 1 .. pow2(n) |-> c] : c \in {ZERO_CMPLX, ONE_CMPLX}}

\* the amplitudes of the whole register
Amps(r) == [k \in 1 .. pow2(r.qubitCount) |-> GetAmplitude(r, k - 1)]

\* the register of the same shape that holds the amplitudes vec
Rebuild(r, vec) ==
    IF r.isStateVec \/ (r.bdtQubitCount = 0 /\ r.attachedQubitCount > 0)
    THEN [r EXCEPT !.root = MakeNode(ONE_CMPLX, <<>>, vec)]
    ELSE [r EXCEPT !.root = BuildSub(vec, r.bdtQubitCount)]

\* the index whose bit p is bit to[p] of i, for every qubit p
RECURSIVE MoveBits(_, _, _)
MoveBits(i, to, p) ==
    IF p >= Len(to) THEN 0
    ELSE SelectBit(i, to[p + 1]) * pow2(p) + MoveBits(i, to, p + 1)

\* the amplitudes after qubit p has moved to position to[p + 1]
PermuteAmps(vec, to) == [k \in 1 .. Len(vec) |-> vec[MoveBits(k - 1, to, 0) + 1]]

\* QInterface::Swap(q1, q2)
Swap(r, q1, q2) ==
    Rebuild(r, PermuteAmps(Amps(r),
        [p \in 1 .. r.qubitCount |-> IF p - 1 = q1 THEN q2 ELSE IF p - 1 = q2 THEN q1 ELSE p - 1]))

\* the gate at the end of a path of Mtrx and ApplyControlledSingle
GateLeaf(leaf0, op) ==
    IF op.isKet
    THEN LET leaf == Branch(leaf0)
         IN  IF leaf.qReg = <<>> THEN leaf
             ELSE [leaf EXCEPT !.qReg = EngMCMtrx(leaf.qReg, op.ketControls, op.mtrx,
                                                  op.target - op.bdtQubitCount)]
    ELSE Apply2x2(leaf0, op.mtrx, op.bdtQubitCount - op.target, op.attachedQubitCount)

\* "Iterate to qubit depth" of both gates, from the node leaf at depth j on
\* path i: the node after the visit and the value the lambda returns
RECURSIVE GateWalk(_, _, _, _)
GateWalk(leaf, i, j, op) ==
    IF j < op.maxQubit
    THEN IF IS_NORM_0(leaf.scale)
         THEN [node |-> leaf, skip |-> pow2(op.maxQubit - j) - 1]
         ELSE LET b == Branch(leaf)
                  bit == SelectBit(i, op.maxQubit - (j + 1))
                  sub == GateWalk(Br(b, bit), i, j + 1, op)
              IN  [node |-> SetBr(b, bit, sub.node), skip |-> sub.skip]
    ELSE IF IS_NORM_0(leaf.scale) THEN [node |-> leaf, skip |-> 0]
    ELSE [node |-> GateLeaf(leaf, op), skip |-> 0]

\* the lambda of Mtrx
MtrxBody(root, i, op) == GateWalk(root, i, 0, op)

\* the lambda of ApplyControlledSingle
ACSBody(root, i, op) ==
    IF BitAnd(i, op.lowControlMask) # op.lowControlMask
    THEN [node |-> root, skip |-> op.lowControlMask - 1]
    ELSE GateWalk(root, i, 0, op)

\* whether the lambda of a gate, on path i from the node leaf at depth j,
\* gets to the gate at the end of the path: no scale on the path is zero
RECURSIVE GateReaches(_, _, _, _)
GateReaches(leaf, i, j, maxQubit) ==
    IF j < maxQubit
    THEN /\ ~IS_NORM_0(leaf.scale)
         /\ GateReaches(Br(Branch(leaf), SelectBit(i, maxQubit - (j + 1))), i, j + 1, maxQubit)
    ELSE ~IS_NORM_0(leaf.scale)

\* whether the lambda of ApplyControlledSingle applies the matrix on index i
ACSApplies(root, i, op) ==
    /\ BitAnd(i, op.lowControlMask) = op.lowControlMask
    /\ GateReaches(root, i, 0, op.maxQubit)

\* the lambda of the first Attach: the children of the node at depth
\* bdtQubitCount - 1 become attached leaves that wrap the clone of toCopy
RECURSIVE AttachBody(_, _, _, _)
AttachBody(leaf, i, j, op) ==
    IF j < op.maxQubit
    THEN IF IS_NORM_0(leaf.scale)
         THEN [node |-> leaf, skip |-> pow2(op.maxQubit - j) - 1]
         ELSE LET bit == SelectBit(i, op.maxQubit - (j + 1))
                  sub == AttachBody(Br(leaf, bit), i, j + 1, op)
              IN  [node |-> SetBr(leaf, bit, sub.node), skip |-> sub.skip]
    ELSE IF IS_NORM_0(leaf.scale) THEN [node |-> leaf, skip |-> 0]
    ELSE [node |-> MakeNode(leaf.scale,
                            <<IF IS_NORM_0(Br(leaf, 0).scale) THEN ZeroNode
                              ELSE MakeNode(Br(leaf, 0).scale, <<>>, op.toCopyClone),
                              IF IS_NORM_0(Br(leaf, 1).scale) THEN ZeroNode
                              ELSE MakeNode(Br(leaf, 1).scale, <<>>, op.toCopyClone)>>,
                            leaf.qReg),
          skip |-> 0]

\* par_for_qbdt(i, end, fn) on one thread: the lambda runs on i and the loop
\* goes on past the range the lambda returns
RECURSIVE par_for_qbdt(_, _, _, _)
par_for_qbdt(i, end, root, op) ==
    IF i >= end THEN root
    ELSE LET v == IF op.kind = "ACS" THEN ACSBody(root, i, op)
                  ELSE IF op.kind = "Attach" THEN AttachBody(root, i, 0, op)
                  ELSE MtrxBody(root, i, op)
         IN  par_for_qbdt(i + v.skip + 1, end, v.node, op)

\* QBdt::Mtrx(mtrx, target)
Mtrx(r, mtrx, target) ==
    IF r.isStateVec
    THEN [r EXCEPT !.root.qReg = EngMtrx(r.root.qReg, mtrx, target)]
    ELSE LET isKet == target >= r.bdtQubitCount
             maxQubit == IF isKet THEN r.bdtQubitCount ELSE target
             op == [kind |-> "Mtrx", mtrx |-> mtrx, isKet |-> isKet, maxQubit |-> maxQubit,
                    target |-> target, lowControlMask |-> 0, ketControls |-> {},
                    bdtQubitCount |-> r.bdtQubitCount,
                    attachedQubitCount |-> r.attachedQubitCount]
         IN  [r EXCEPT !.root = Prune(par_for_qbdt(0, pow2(maxQubit), r.root, op), maxQubit + 1)]

RECURSIVE SumPow(_, _)
SumPow(S, maxQubit) ==
    IF S = {} THEN 0
    ELSE LET c == CHOOSE x \in S : TRUE
         IN  pow2(maxQubit - (c + 1)) + SumPow(S \ {c}, maxQubit)

\* what the lambda of ApplyControlledSingle captures: isKet, maxQubit,
\* lowControlMask and ketControls, for the controls and the target after the
\* swap
ACSOp(r, mtrx, controlVec, target) ==
    LET isKet == target >= r.bdtQubitCount
        maxQubit == IF isKet THEN r.bdtQubitCount ELSE target
    IN  [kind |-> "ACS", mtrx |-> mtrx, isKet |-> isKet, maxQubit |-> maxQubit,
         target |-> target,
         lowControlMask |-> SumPow({c \in controlVec : c < r.bdtQubitCount}, maxQubit),
         ketControls |-> {c - r.bdtQubitCount : c \in {x \in controlVec : x >= r.bdtQubitCount}},
         bdtQubitCount |-> r.bdtQubitCount,
         attachedQubitCount |-> r.attachedQubitCount]

\* QBdt::ApplyControlledSingle(mtrx, controls, controlLen, target)
ApplyControlledSingle(r0, mtrx, controls, target0) ==
    IF r0.isStateVec
    THEN [r0 EXCEPT !.root.qReg = EngMCMtrx(r0.root.qReg, controls, mtrx, target0)]
    ELSE LET back == SetMax(controls)
             isSwapped == target0 < back /\ target0 < r0.bdtQubitCount
             r == IF isSwapped THEN Swap(r0, target0, back) ELSE r0
             target == IF isSwapped THEN back ELSE target0
             controlVec == IF isSwapped THEN (controls \ {back}) \cup {target0} ELSE controls
             isKet == target >= r.bdtQubitCount
             maxQubit == IF isKet THEN r.bdtQubitCount ELSE target
             op == ACSOp(r, mtrx, controlVec, target)
             done == [r EXCEPT !.root = Prune(par_for_qbdt(0, pow2(maxQubit), r.root, op), maxQubit + 1)]
         IN  IF isSwapped THEN Swap(done, target, target0) ELSE done

IsPhase(mtrx) == IS_NORM_0(mtrx[2]) /\ IS_NORM_0(mtrx[3])
IsInvert(mtrx) == IS_NORM_0(mtrx[1]) /\ IS_NORM_0(mtrx[4])

\* QBdt::MCMtrx(controls, controlLen, mtrx, target) for a matrix that is
\* neither diagonal nor anti-diagonal
MCMtrx(r, controls, mtrx, target) ==
    IF controls = {} THEN Mtrx(r, mtrx, target)
    ELSE ApplyControlledSingle(r, mtrx, controls, target)

RECURSIVE SumSeq(_, _)
SumSeq(vec, k) == IF k > Len(vec) THEN ZERO_CMPLX ELSE NAdd(vec[k], SumSeq(vec, k + 1))

\* the square roots the exact numbers of the model can express
SqrtCandidates ==
    {Reduce(a, b, e) : a \in 0 .. 2, b \in 0 .. 2, e \in {1, 2, 4}} \ {NaN}

\* the nonnegative y with y * y = x, if the model can express one
NSqrt(x) == {y \in SqrtCandidates : NMul(y, y) = x}

\* Prob of the engine: the chance of qubit being 1
EngProb(eng, qubit) ==
    SumSeq([k \in 1 .. Len(eng) |->
               IF SelectBit(k - 1, qubit) = 1 THEN norm(eng[k]) ELSE ZERO_CMPLX], 1)

\* ForceM(qubit, result, false, true) of the engine: it samples its own result,
\* keeps the amplitudes that agree with it and normalizes them.  The set of
\* [qReg, result] it can end with.
EngForceM(eng, qubit) ==
    LET oneChance == clampProb(EngProb(eng, qubit))
    IN  UNION {
            {[qReg |-> [k \in 1 .. Len(eng) |->
                           IF SelectBit(k - 1, qubit) = res THEN NDiv(eng[k], nrm)
                           ELSE ZERO_CMPLX],
              result |-> res]
             : nrm \in NSqrt(IF res = 1 THEN oneChance
                             ELSE NAdd(ONE_CMPLX, NNeg(oneChance)))}
            : res \in SampleBit(oneChance)}

\* the inner loop of Prob on path i: the leaf reached and the product of scales
RECURSIVE ProbWalk(_, _, _, _, _)
ProbWalk(leaf, scale, j, maxQubit, i) ==
    IF j < maxQubit /\ ~IS_NORM_0(scale)
    THEN LET next == Br(leaf, SelectBit(i, j))
         IN  ProbWalk(next, NMul(scale, next.scale), j + 1, maxQubit, i)
    ELSE [leaf |-> leaf, scale |-> scale]

\* the outer loop of Prob from path i on
RECURSIVE ProbLoop(_, _, _, _, _)
ProbLoop(r, qubit, isKet, maxQubit, i) ==
    IF i >= pow2(maxQubit) THEN ZERO_CMPLX
    ELSE LET w == ProbWalk(r.root, r.root.scale, 0, maxQubit, i)
             term == IF IS_NORM_0(w.scale) THEN ZERO_CMPLX
                     ELSE IF isKet
                     THEN IF w.leaf.qReg = <<>> THEN NaN
                          ELSE NMul(norm(w.scale), EngProb(w.leaf.qReg, qubit - r.bdtQubitCount))
                     ELSE norm(NMul(w.scale, Br(w.leaf, 1).scale))
         IN  NAdd(term, ProbLoop(r, qubit, isKet, maxQubit, i + 1))

\* QBdt::Prob(qubit)
Prob(r, qubit) ==
    IF r.isStateVec THEN EngProb(r.root.qReg, qubit)
    ELSE LET isKet == qubit >= r.bdtQubitCount
             maxQubit == IF isKet THEN r.bdtQubitCount ELSE qubit
         IN  clampProb(ProbLoop(r, qubit, isKet, maxQubit, 0))

\* the loop of ForceM below the node leaf at depth j, over all paths through
\* it: the set of nodes it can leave
RECURSIVE ForceMWalk(_, _, _, _, _, _)
ForceMWalk(leaf0, j, maxQubit, isKet, ketQubit, result) ==
    IF IS_NORM_0(leaf0.scale) THEN {leaf0}
    ELSE LET leaf == Branch(leaf0)
         IN  IF j < maxQubit
             THEN IF leaf.branches = <<>> THEN {leaf}
                  ELSE {MakeNode(leaf.scale, <<b0, b1>>, leaf.qReg)
                        : b0 \in ForceMWalk(Br(leaf, 0), j + 1, maxQubit, isKet, ketQubit, result),
                          b1 \in ForceMWalk(Br(leaf, 1), j + 1, maxQubit, isKet, ketQubit, result)}
             ELSE IF isKet
             THEN IF leaf.qReg = <<>> THEN {leaf}
                  ELSE {[leaf EXCEPT !.qReg = e.qReg] : e \in EngForceM(leaf.qReg, ketQubit)}
             ELSE IF leaf.branches = <<>> THEN {leaf}
             ELSE IF result = 1
             THEN {MakeNode(leaf.scale,
                            <<ZeroNode,
                              [Br(leaf, 1) EXCEPT !.scale = NDiv(Br(leaf, 1).scale, abs(Br(leaf, 1).scale))]>>,
                            leaf.qReg)}
             ELSE {MakeNode(leaf.scale,
                            <<[Br(leaf, 0) EXCEPT !.scale = NDiv(Br(leaf, 0).scale, abs(Br(leaf, 0).scale))],
                              ZeroNode>>,
                            leaf.qReg)}

\* QBdt::ForceM(qubit, result, doForce = false, doApply): the set of
\* [reg, result] it can end with
ForceM(r, qubit, doApply) ==
    IF r.isStateVec
    THEN IF doApply
         THEN {[reg |-> [r EXCEPT !.root.qReg = e.qReg], result |-> e.result]
               : e \in EngForceM(r.root.qReg, qubit)}
         ELSE {[reg |-> r, result |-> res] : res \in SampleBit(clampProb(EngProb(r.root.qReg, qubit)))}
    ELSE LET isKet == qubit >= r.bdtQubitCount
             maxQubit == IF isKet THEN r.bdtQubitCount ELSE qubit
         IN  UNION {
                 IF ~doApply THEN {[reg |-> r, result |-> result]}
                 ELSE {[reg |-> [r EXCEPT !.root = Prune(n, maxQubit + 1)], result |-> result]
                       : n \in ForceMWalk([r.root EXCEPT !.scale = ONE_CMPLX], 0, maxQubit,
                                          isKet, qubit - r.bdtQubitCount, result)}
                 : result \in SampleBit(Prob(r, qubit))}

\* QInterface::ROL(shift, 0, qubitCount): qubit p moves to p + shift, around
ROL(r, shift) ==
    IF r.qubitCount = 0 THEN r
    ELSE Rebuild(r, PermuteAmps(Amps(r),
             [p \in 1 .. r.qubitCount |-> ((p - 1) + shift) % r.qubitCount]))

\* QInterface::ROR(shift, 0, qubitCount): qubit p moves to p - shift, around
ROR(r, shift) ==
    IF r.qubitCount = 0 THEN r
    ELSE Rebuild(r, PermuteAmps(Amps(r),
             [p \in 1 .. r.qubitCount |-> ((p - 1) + r.qubitCount - (shift % r.qubitCount)) % r.qubitCount]))

\* Compose of two engines: the qubits of high go above those of low; no engine
\* stands for the scalar 1
EngCompose(low, high) ==
    IF low = <<>> THEN high
    ELSE IF high = <<>> THEN low
    ELSE [k \in 1 .. (Len(low) * Len(high)) |->
             NMul(low[((k - 1) % Len(low)) + 1], high[((k - 1) \div Len(low)) + 1])]

\* the copy of the tree sub of size levels that InsertAtDepth puts in the
\* place of the node at: the leaves of the copy carry on with what was below at
RECURSIVE Graft(_, _, _)
Graft(sub, at, size) ==
    IF IS_NORM_0(sub.scale) THEN ZeroNode
    ELSE IF size = 0
    THEN MakeNode(sub.scale, at.branches, EngCompose(sub.qReg, at.qReg))
    ELSE MakeNode(sub.scale, <<Graft(Br(sub, 0), at, size - 1), Graft(Br(sub, 1), at, size - 1)>>, <<>>)

\* QBdtNode::InsertAtDepth(b, depth, size)
RECURSIVE InsertAtDepth(_, _, _, _)
InsertAtDepth(node, b, depth, size) ==
    IF IS_NORM_0(node.scale) THEN node
    ELSE IF depth = 0
    THEN Graft([b EXCEPT !.scale = NMul(node.scale, b.scale)], node, size)
    ELSE IF node.branches = <<>> THEN node
    ELSE MakeNode(node.scale,
                  <<InsertAtDepth(Br(node, 0), b, depth - 1, size),
                    InsertAtDepth(Br(node, 1), b, depth - 1, size)>>,
                  node.qReg)

\* QBdt::Compose(toCopy, start)
RECURSIVE Compose(_, _, _)
Compose(r, toCopy, start) ==
    LET midIndex == r.bdtQubitCount
        endIndex == r.qubitCount
    IN  IF r.attachedQubitCount > 0 /\ toCopy.attachedQubitCount > 0 /\ start < midIndex
        THEN ROR(Compose(ROL(r, midIndex - start), toCopy, midIndex), midIndex - start)
        ELSE IF r.attachedQubitCount > 0 /\ toCopy.attachedQubitCount > 0 /\ midIndex < start
        THEN ROL(Compose(ROR(r, start - midIndex), toCopy, midIndex), start - midIndex)
        ELSE IF r.attachedQubitCount > 0 /\ toCopy.attachedQubitCount = 0 /\ start > 0
        THEN ROL(Compose(ROR(r, start), toCopy, 0), start)
        ELSE IF r.attachedQubitCount = 0 /\ toCopy.attachedQubitCount > 0 /\ start < r.qubitCount
        THEN ROR(Compose(ROL(r, endIndex - start), toCopy, endIndex), endIndex - start)
        ELSE SetQubitCount(
                 [r EXCEPT !.root = InsertAtDepth(r.root, toCopy.root, start, toCopy.bdtQubitCount)],
                 r.qubitCount + toCopy.qubitCount,
                 r.attachedQubitCount + toCopy.attachedQubitCount)

\* the index over all qubits made of index a over the qubits start ..
\* start + length - 1 and index c over the others
JoinIndex(a, c, start, length) ==
    (c % pow2(start)) + a * pow2(start) + (c \div pow2(start)) * pow2(start + length)

\* QBdtNode::RemoveSeparableAtDepth(start, length) on the amplitudes of the
\* register: the set of outcomes [err, removed, rest].  The range is separable
\* when the amplitudes are a product of amplitudes removed over the range and
\* amplitudes rest over the other qubits; removed is normalized.
RemoveSeparableAtDepth(r, start, length) ==
    IF start + length > r.qubitCount
    THEN {[err |-> "InvalidQubitIndex", removed |-> <<>>, rest |-> <<>>]}
    ELSE LET vec == Amps(r)
             nz == {i \in 0 .. (Len(vec) - 1) : ~IS_NORM_0(vec[i + 1])}
             i0 == IF nz = {} THEN 0 ELSE CHOOSE i \in nz : \A k \in nz : i <= k
             a0 == (i0 \div pow2(start)) % pow2(length)
             c0 == (i0 % pow2(start)) + (i0 \div pow2(start + length)) * pow2(start)
             M(a, c) == vec[JoinIndex(a, c, start, length) + 1]
             col == [k \in 1 .. pow2(length) |-> M(k - 1, c0)]
             nrm2 == SumSeq([k \in 1 .. Len(col) |-> norm(col[k])], 1)
         IN  IF \E a \in 0 .. (pow2(length) - 1), c \in 0 .. (pow2(r.qubitCount - length) - 1) :
                    NMul(M(a, c), M(a0, c0)) # NMul(M(a, c0), M(a0, c))
             THEN {[err |-> "NotSeparable", removed |-> <<>>, rest |-> <<>>]}
             ELSE {[err |-> "",
                    removed |-> [k \in 1 .. Len(col) |-> NDiv(col[k], nrm)],
                    rest |-> [k \in 1 .. pow2(r.qubitCount - length) |->
                                 NDiv(M(a0, k - 1), NDiv(col[a0 + 1], nrm))]]
                   : nrm \in NSqrt(nrm2)}

\* QBdt::DecomposeDispose(start, length, dest): the set of outcomes
\* [reg, removed, err]; after an error reg is the register the exception leaves
RECURSIVE DecomposeDispose(_, _, _)
DecomposeDispose(r, start, length) ==
    IF r.attachedQubitCount > 0 /\ start > 0
    THEN {IF o.err # "" THEN o ELSE [o EXCEPT !.reg = ROL(o.reg, start)]
          : o \in DecomposeDispose(ROR(r, start), 0, length)}
    ELSE {IF o.err # "" THEN [reg |-> r, removed |-> <<>>, err |-> o.err]
          ELSE LET aqb == IF r.bdtQubitCount < length
                          THEN r.attachedQubitCount - (length - r.bdtQubitCount)
                          ELSE r.attachedQubitCount
                   r2 == Rebuild(SetQubitCount(r, r.qubitCount - length, aqb), o.rest)
               IN  [reg |-> [r2 EXCEPT !.root = Prune(r2.root, r2.bdtQubitCount)],
                    removed |-> o.removed, err |-> ""]
          : o \in RemoveSeparableAtDepth(r, start, length)}

\* QBdt::Decompose(start, length): the set of outcomes [reg, dest, err]; dest
\* is made by QBdt(qBitCount = bdtQubitCount, initState = length), and
\* Decompose(start, dest) removes dest->GetQubitCount() qubits
Decompose(r, start, length) ==
    LET toRet == NewQBdt(r.bdtQubitCount, length % pow2(r.bdtQubitCount))
    IN  {[reg |-> o.reg,
          dest |-> IF o.err # "" THEN toRet
                   ELSE [toRet EXCEPT !.root = BuildSub(o.removed, toRet.bdtQubitCount)],
          err |-> o.err]
         : o \in DecomposeDispose(r, start, toRet.qubitCount)}

\* the lambda of Attach on a register with attached qubits, from the node
\* leaf at depth j on path i: whether it composes toCopy into the engine of
\* the leaf it reaches, and the value it returns
RECURSIVE AttachKetBody(_, _, _, _)
AttachKetBody(leaf, i, j, bdtQubitCount) ==
    IF j < bdtQubitCount
    THEN IF IS_NORM_0(leaf.scale)
         THEN [composes |-> 0, skip |-> pow2(bdtQubitCount - j) - 1]
         ELSE AttachKetBody(Br(leaf, SelectBit(i, bdtQubitCount - (j + 1))), i, j + 1, bdtQubitCount)
    ELSE [composes |-> IF IS_NORM_0(leaf.scale) THEN 0 ELSE 1, skip |-> 0]

\* the par_for_qbdt loop of that lambda from index i on: how many times it
\* composes toCopy into an engine
RECURSIVE AttachKetLoop(_, _, _)
AttachKetLoop(r, i, end) ==
    IF i >= end THEN 0
    ELSE LET v == AttachKetBody(r.root, i, 0, r.bdtQubitCount)
         IN  v.composes + AttachKetLoop(r, i + v.skip + 1, end)

RECURSIVE EngComposeTimes(_, _, _)
EngComposeTimes(eng, toCopy, times) ==
    IF times = 0 THEN eng ELSE EngComposeTimes(EngCompose(eng, toCopy), toCopy, times - 1)

\* every engine below node replaced by the engine it is after times Compose
RECURSIVE ComposeLeaves(_, _, _)
ComposeLeaves(node, toCopy, times) ==
    IF IS_NORM_0(node.scale) THEN node
    ELSE IF node.branches = <<>>
    THEN IF node.qReg = <<>> THEN node
         ELSE [node EXCEPT !.qReg = EngComposeTimes(node.qReg, toCopy, times)]
    ELSE MakeNode(node.scale,
                  <<ComposeLeaves(Br(node, 0), toCopy, times),
                    ComposeLeaves(Br(node, 1), toCopy, times)>>,
                  node.qReg)

\* the nonzero leaves at the depth of the engines
RECURSIVE LeafCount(_, _)
LeafCount(node, depth) ==
    IF IS_NORM_0(node.scale) THEN 0
    ELSE IF depth = 0 \/ node.branches = <<>> THEN 1
    ELSE LeafCount(Br(node, 0), depth - 1) + LeafCount(Br(node, 1), depth - 1)

\* QBdt::Attach(toCopy).  With attached qubits already there, the engines of
\* the leaves are one engine (the clone the first Attach shared among them, or
\* the engine of the only leaf), which every visit of the loop composes into.
Attach(r, toCopy) ==
    IF r.attachedQubitCount > 0
    THEN SetQubitCount(
             [r EXCEPT !.root = ComposeLeaves(r.root, toCopy,
                                              AttachKetLoop(r, 0, pow2(r.qubitCount)))],
             r.qubitCount + EngQubitCount(toCopy),
             r.attachedQubitCount + EngQubitCount(toCopy))
    ELSE LET maxQubit == r.bdtQubitCount - 1
             op == [kind |-> "Attach", maxQubit |-> maxQubit, toCopyClone |-> toCopy]
         IN  SetQubitCount([r EXCEPT !.root = par_for_qbdt(0, pow2(maxQubit), r.root, op)],
                           r.qubitCount + EngQubitCount(toCopy), EngQubitCount(toCopy))

\* QBdt::SetStateVector(): the tree becomes one attached leaf that holds all
\* the amplitudes
SetStateVector(r) ==
    IF r.isStateVec THEN r
    ELSE [SetQubitCount([r EXCEPT !.root = MakeNode(ONE_CMPLX, <<>>, Amps(r))],
                        r.qubitCount, r.qubitCount)
          EXCEPT !.isStateVec = TRUE]

\* the number of bits set in both i and mask, modulo 2
RECURSIVE Parity(_, _)
Parity(i, mask) ==
    IF i = 0 \/ mask = 0 THEN 0
    ELSE ((i % 2) * (mask % 2) + Parity(i \div 2, mask \div 2)) % 2

\* ForceMParity(mask, result, false) of the engine: the set of [qReg, result]
EngForceMParity(eng, mask) ==
    LET oddChance == clampProb(SumSeq([k \in 1 .. Len(eng) |->
                        IF Parity(k - 1, mask) = 1 THEN norm(eng[k]) ELSE ZERO_CMPLX], 1))
    IN  UNION {
            {[qReg |-> [k \in 1 .. Len(eng) |->
                           IF Parity(k - 1, mask) = res THEN NDiv(eng[k], nrm) ELSE ZERO_CMPLX],
              result |-> res]
             : nrm \in NSqrt(IF res = 1 THEN oddChance ELSE NAdd(ONE_CMPLX, NNeg(oddChance)))}
            : res \in SampleBit(oddChance)}

\* QBdt::ForceMParity(mask, result, doForce = false): the set of [reg, result]
ForceMParity(r, mask) ==
    LET sv == SetStateVector(r)
    IN  {[reg |-> [sv EXCEPT !.root.qReg = e.qReg], result |-> e.result]
         : e \in EngForceMParity(sv.root.qReg, mask)}

\* the tree SetTraversal builds before PopStateVector: Branch gives every node
\* two default children (scale 1), the lambda sets the scale of leaf i
RECURSIVE SetTraversalTree(_, _)
SetTraversalTree(state, depth) ==
    IF depth = 0 THEN LeafNode(state[1])
    ELSE MakeNode(ONE_CMPLX,
                  <<SetTraversalTree(HalfVec(state, 0), depth - 1),
                    SetTraversalTree(HalfVec(state, 1), depth - 1)>>,
                  <<>>)

\* QBdtNode::PopStateVector(depth), with the scale sc of the ancestors
RECURSIVE PopStateVector(_, _, _)
PopStateVector(node, depth, sc) ==
    IF depth = 0 \/ node.branches = <<>> THEN [node EXCEPT !.scale = NMul(sc, node.scale)]
    ELSE MakeNode(ONE_CMPLX,
                  <<PopStateVector(Br(node, 0), depth - 1, NMul(sc, node.scale)),
                    PopStateVector(Br(node, 1), depth - 1, NMul(sc, node.scale))>>,
                  node.qReg)

\* QBdt::SetQuantumState(state) of a register without attached qubits
SetQuantumState(r, state) ==
    [r EXCEPT !.root = Prune(PopStateVector(SetTraversalTree(state, r.bdtQubitCount),
                                            r.bdtQubitCount, ONE_CMPLX),
                             r.bdtQubitCount)]

(***************************************************************************)
(* The QBdt register as a state machine: one action per public operation.  *)
(***************************************************************************)
\* the most qubits a register is made to hold
MaxQubits == 3
\* the most qubits of a register at construction
InitQubits == 2
\* the operations of one behaviour
MaxSteps == 3
\* the most controls of a controlled gate
MaxControls == 2


NoReg == [root |-> ZeroNode, qubitCount |-> 0, bdtQubitCount |-> 0,
          attachedQubitCount |-> 0, isStateVec |-> FALSE]

NoOp == [op |-> "new", arg |-> <<>>, ret |-> 0, err |-> "", pre |-> NoReg]

\* the shape the operations rely on: a tree of bdtQubitCount levels over
\* leaves whose engines hold attachedQubitCount qubits
RECURSIVE WellFormedNode(_, _, _)
WellFormedNode(node, depth, aqb) ==
    IF IS_NORM_0(node.scale) THEN TRUE
    ELSE IF IsNaN(node.scale) THEN FALSE
    ELSE IF depth = 0
    THEN /\ node.branches = <<>>
         /\ IF aqb > 0 THEN Len(node.qReg) = pow2(aqb) ELSE node.qReg = <<>>
    ELSE /\ node.branches # <<>>
         /\ node.qReg = <<>>
         /\ WellFormedNode(Br(node, 0), depth - 1, aqb)
         /\ WellFormedNode(Br(node, 1), depth - 1, aqb)

WellFormed(r) ==
    /\ r.isStateVec => (r.bdtQubitCount = 0 /\ r.attachedQubitCount = r.qubitCount)
    /\ WellFormedNode(r.root, r.bdtQubitCount, r.attachedQubitCount)

\* the registers given to Compose
OtherRegs ==
    {NewQBdt(1, 1), Mtrx(NewQBdt(1, 0), HadamardMtrx, 0),
     Attach(NewQBdt(1, 0), EngBasis(1, 1))}

\* the engines given to Attach
OtherEngines == {EngBasis(1, 1), <<SQRT1_2, SQRT1_2>>}

\* the state vectors given to SetQuantumState: amplitude 1/sqrt(2) at 0 and
\* at the last index, or 1/sqrt(2) at 0 and 1/2 at 1 and at the last index
StateInputs(n) ==
    {[k \in 1 .. pow2(n) |-> IF k = 1 \/ k = pow2(n) THEN SQRT1_2 ELSE ZERO_CMPLX]}
    \cup (IF n < 2 THEN {}
          ELSE {[k \in 1 .. pow2(n) |-> IF k = 1 THEN SQRT1_2
                                        ELSE IF k = 2 \/ k = pow2(n) THEN <<1, 0, 2>>
                                        ELSE ZERO_CMPLX]})

\* the bookkeeping every operation ends with
Record(op, arg, ret, err, r, d, shared, tree) ==
    /\ reg' = r
    /\ dest' = d
    /\ last' = [op |-> op, arg |-> arg, ret |-> ret, err |-> err, pre |-> reg]
    /\ prev' = [op |-> last.op, arg |-> last.arg, pre |-> last.pre]
    /\ sharedQReg' = shared
    /\ treeOps' = (treeOps /\ tree)
    /\ steps' = steps + 1
    /\ UNCHANGED <<mvars, pvars, acs, rq>>

CallSetPermutation ==
    /\ steps < MaxSteps
    /\ \E initState \in 0 .. (pow2(reg.qubitCount) - 1) :
           Record("SetPermutation", initState, 0, "", SetPermutation(reg, initState),
                  dest, FALSE, TRUE)

CallMtrx ==
    /\ steps < MaxSteps /\ WellFormed(reg)
    /\ \E mtrx \in {HadamardMtrx, PauliXMtrx}, target \in 0 .. (reg.qubitCount - 1) :
           Record("Mtrx", <<mtrx, target>>, 0, "", Mtrx(reg, mtrx, target), dest, FALSE, TRUE)

CallMCMtrx ==
    /\ steps < MaxSteps /\ WellFormed(reg)
    /\ \E target \in 0 .. (reg.qubitCount - 1) :
       \E controls \in SUBSET ((0 .. (reg.qubitCount - 1)) \ {target}) :
           /\ controls # {} /\ Cardinality(controls) <= MaxControls
           /\ Record("MCMtrx", <<controls, target>>, 0, "",
                     MCMtrx(reg, controls, HadamardMtrx, target), dest, FALSE, TRUE)

CallForceM ==
    /\ steps < MaxSteps /\ WellFormed(reg)
    /\ \E qubit \in 0 .. (reg.qubitCount - 1), doApply \in BOOLEAN :
       \E o \in ForceM(reg, qubit, doApply) :
           Record("ForceM", <<qubit, doApply>>, o.result, "", o.reg, dest,
                  sharedQReg /\ ~doApply, TRUE)

CallMAll ==
    /\ steps < MaxSteps /\ WellFormed(reg)
    /\ \E o \in MAll(reg) : Record("MAll", <<>>, o.result, "", o.reg, dest, FALSE, TRUE)

CallCompose ==
    /\ steps < MaxSteps /\ WellFormed(reg)
    /\ \E toCopy \in OtherRegs, start \in 0 .. reg.qubitCount :
           /\ reg.qubitCount + toCopy.qubitCount <= MaxQubits
           /\ reg.isStateVec => (start = 0 \/ toCopy.bdtQubitCount = 0)
           /\ Record("Compose", [toCopy |-> toCopy, start |-> start], start, "",
                     Compose(reg, toCopy, start), dest, FALSE, FALSE)

CallAttach ==
    /\ steps < MaxSteps /\ WellFormed(reg)
    /\ \E toCopy \in OtherEngines :
           /\ reg.qubitCount + EngQubitCount(toCopy) <= MaxQubits
           /\ IF reg.attachedQubitCount = 0 THEN reg.bdtQubitCount >= 1
              ELSE sharedQReg \/ LeafCount(reg.root, reg.bdtQubitCount) = 1
           /\ Record("Attach", toCopy, reg.qubitCount, "", Attach(reg, toCopy), dest,
                     reg.attachedQubitCount = 0 \/ sharedQReg, FALSE)

CallDecompose ==
    /\ steps < MaxSteps /\ WellFormed(reg)
    /\ \E start \in 0 .. (reg.qubitCount - 1) :
       \E length \in 1 .. (reg.qubitCount - start) :
       \E o \in Decompose(reg, start, length) :
           Record("Decompose", [start |-> start, length |-> length], 0, o.err, o.reg,
                  IF o.err = "" THEN o.dest ELSE dest, FALSE, FALSE)

CallDispose ==
    /\ steps < MaxSteps /\ WellFormed(reg)
    /\ \E start \in 0 .. (reg.qubitCount - 1) :
       \E length \in 1 .. (reg.qubitCount - start) :
       \E o \in DecomposeDispose(reg, start, length) :
           Record("Dispose", [start |-> start, length |-> length], 0, o.err, o.reg,
                  dest, FALSE, FALSE)

CallForceMParity ==
    /\ steps < MaxSteps /\ WellFormed(reg)
    /\ \E mask \in 1 .. (pow2(reg.qubitCount) - 1) :
       \E o \in ForceMParity(reg, mask) :
           Record("ForceMParity", mask, o.result, "", o.reg, dest, FALSE, FALSE)

CallSetQuantumState ==
    /\ steps < MaxSteps /\ WellFormed(reg)
    /\ reg.attachedQubitCount = 0
    /\ \E state \in StateInputs(reg.qubitCount) :
           Record("SetQuantumState", state, 0, "", SetQuantumState(reg, state), dest,
                  FALSE, FALSE)

\* the QUnitMulti of the first part stays as constructed
MIdle ==
    /\ deviceList = <<[id |-> 0, maxSize |-> 2]>>
    /\ oclDefault = 0
    /\ subEngine = "OPENCL"
    /\ shards = [q \in Qubits |-> q + 1]
    /\ units = [u \in UnitIds |-> [qubits |-> 1, dev |-> 0]]
    /\ mlast = [op |-> "init", unit |-> 0, exceeded |-> FALSE, moved |-> FALSE,
                largest |-> FALSE, redistributed |-> FALSE, called |-> FALSE]

\* no QBdt register beside the QUnitMulti
BIdle ==
    /\ reg = NoReg /\ dest = NoReg /\ last = NoOp
    /\ prev = [op |-> "new", arg |-> <<>>, pre |-> NoReg]
    /\ sharedQReg = FALSE /\ treeOps = TRUE /\ steps = 0

BInit ==
    /\ MIdle
    /\ \E qBitCount \in 1 .. InitQubits :
       \E initState \in 0 .. (pow2(qBitCount) - 1) :
           reg = NewQBdt(qBitCount, initState)
    /\ dest = NoReg
    /\ last = NoOp
    /\ prev = [op |-> "new", arg |-> <<>>, pre |-> NoReg]
    /\ sharedQReg = FALSE
    /\ treeOps = TRUE
    /\ steps = 0

\* gates and measurements
GateNext ==
    \/ CallSetPermutation
    \/ CallMtrx
    \/ CallMCMtrx
    \/ CallForceM
    \/ CallMAll
    \/ CallAttach


\* operations that change the shape of the register
ShapeNext ==
    \/ CallSetPermutation
    \/ CallSetQuantumState
    \/ CallCompose
    \/ CallAttach
    \/ CallDecompose
    \/ CallDispose
    \/ CallForceMParity
    \/ CallMAll



(***************************************************************************)
(* Claims about QBdt.                                                      *)
(***************************************************************************)
SumProbAll(r) == SumSeq([k \in 1 .. pow2(r.qubitCount) |-> ProbAll(r, k - 1)], 1)

IsBasisState(r, perm) ==
    \A j \in 0 .. (pow2(r.qubitCount) - 1) :
        ProbAll(r, j) = IF j = perm THEN ONE_CMPLX ELSE ZERO_CMPLX

\* C2: in every state reached from construction by SetPermutation, Mtrx,
\* MCMtrx, ForceM and MAll alone, the probabilities ProbAll(i) of all the
\* permutations i of the register add up to 1.
C2_ProbabilitiesSumToOne == treeOps => SumProbAll(reg) = ONE_CMPLX

\* C3: right after SetPermutation(k), whatever the shape of the register,
\* GetAmplitude(k) is 1 and GetAmplitude(j) is 0 for every other j.
C3_PermutationAmplitudes ==
    last.op = "SetPermutation" =>
        \A j \in 0 .. (pow2(reg.qubitCount) - 1) :
            GetAmplitude(reg, j) = IF j = last.arg THEN ONE_CMPLX ELSE ZERO_CMPLX

\* C3 witness: SetPermutation(k) on a register of tree qubits over attached
\* qubits, with a k that has a bit set among the attached qubits
C3_Witness ==
    /\ last.op = "SetPermutation"
    /\ reg.bdtQubitCount > 0 /\ reg.attachedQubitCount > 0
    /\ last.arg >= pow2(reg.bdtQubitCount)
    /\ GetAmplitude(reg, last.arg) = ONE_CMPLX

\* C4: MAll called right after SetPermutation(k) returns k.
C4_MAllReturnsPermutation ==
    (last.op = "MAll" /\ prev.op = "SetPermutation") => last.ret = prev.arg

\* C4 witness: MAll returned k after SetPermutation(k) for a k with a bit set
\* among the tree qubits and a bit set among the attached qubits
C4_Witness ==
    /\ last.op = "MAll" /\ prev.op = "SetPermutation"
    /\ reg.bdtQubitCount > 0 /\ reg.attachedQubitCount > 0
    /\ prev.arg = pow2(reg.qubitCount) - 1
    /\ last.ret = prev.arg

\* C5: Decompose(pos, m) right after Compose(B, pos) of a register B of m
\* qubits gives back a register of m qubits with the amplitudes of B and
\* leaves the register with the qubits and the amplitudes it had before the
\* Compose.
C5_ComposeDecomposeRoundTrip ==
    (/\ last.op = "Decompose" /\ prev.op = "Compose"
     /\ last.arg.start = prev.arg.start
     /\ last.arg.length = prev.arg.toCopy.qubitCount)
    => /\ last.err = ""
       /\ dest.qubitCount = prev.arg.toCopy.qubitCount
       /\ Amps(dest) = Amps(prev.arg.toCopy)
       /\ reg.qubitCount = prev.pre.qubitCount
       /\ Amps(reg) = Amps(prev.pre)

\* C6: a Decompose or Dispose that fails with NotSeparable leaves the
\* register as it was: the same counts of qubits and the same amplitudes.
C6_NotSeparableLeavesRegister ==
    last.err = "NotSeparable" =>
        /\ reg.qubitCount = last.pre.qubitCount
        /\ reg.bdtQubitCount = last.pre.bdtQubitCount
        /\ reg.attachedQubitCount = last.pre.attachedQubitCount
        /\ Amps(reg) = Amps(last.pre)

\* C7: whenever isStateVec is true the root is one attached leaf whose engine
\* holds all qubitCount qubits, bdtQubitCount is 0 and attachedQubitCount is
\* qubitCount.
C7_FlatModeShape ==
    reg.isStateVec =>
        /\ reg.root.branches = <<>>
        /\ reg.root.qReg # <<>>
        /\ Len(reg.root.qReg) = pow2(reg.qubitCount)
        /\ reg.bdtQubitCount = 0
        /\ reg.attachedQubitCount = reg.qubitCount

\* C9: after MAll has returned r, ProbAll(r) is 1 and ProbAll(j) is 0 for
\* every other j.
C9_MAllLeavesBasisState == last.op = "MAll" => IsBasisState(reg, last.ret)

(***************************************************************************)
(* One Mtrx call on a tree target run by parallel workers.  Here the nodes *)
(* are objects: heap[id] is [scale, b0, b1] with the ids of the children   *)
(* (0 is the null pointer).  par_for_qbdt hands the next index to a worker *)
(* that is free; the steps of the lambda of the workers interleave.        *)
(***************************************************************************)
\* the workers of par_for_qbdt
NumWorkers == 2
\* the qubits of the register of the parallel call
ParQubits == 2

Workers == 1 .. NumWorkers

\* the node id of the heap as a value
RECURSIVE ToNode(_, _)
ToNode(h, id) ==
    IF id = 0 THEN ZeroNode
    ELSE IF h[id].b0 = 0 THEN LeafNode(h[id].scale)
    ELSE MakeNode(h[id].scale, <<ToNode(h, h[id].b0), ToNode(h, h[id].b1)>>, <<>>)

\* the heap with new objects for the nodes of the value node, and the id of
\* the object of node
RECURSIVE AllocNode(_, _)
AllocNode(h, node) ==
    IF node.branches = <<>>
    THEN [h |-> Append(h, [scale |-> node.scale, b0 |-> 0, b1 |-> 0]), id |-> Len(h) + 1]
    ELSE LET a0 == AllocNode(h, node.branches[1])
             a1 == AllocNode(a0.h, node.branches[2])
         IN  [h |-> Append(a1.h, [scale |-> node.scale, b0 |-> a0.id, b1 |-> a1.id]),
              id |-> Len(a1.h) + 1]

\* QBdtNode::Branch() on the object id: its two child pointers are replaced by
\* new shallow clones of the children
HeapBranch(h, id) ==
    IF h[id].b0 = 0 THEN h
    ELSE LET h1 == Append(Append(h, h[h[id].b0]), h[h[id].b1])
         IN  [h1 EXCEPT ![id].b0 = Len(h) + 1, ![id].b1 = Len(h) + 2]

\* QBdtNode::Apply2x2(mtrx, depth) on the object id: new children
HeapApply2x2(h, id, mtrx, depth) ==
    LET v == Apply2x2(ToNode(h, id), mtrx, depth, 0)
        a0 == AllocNode(h, v.branches[1])
        a1 == AllocNode(a0.h, v.branches[2])
    IN  [a1.h EXCEPT ![id].b0 = a0.id, ![id].b1 = a1.id]

\* the registers the parallel call starts from
ParInputs ==
    {NewQBdt(ParQubits, k) : k \in 0 .. (pow2(ParQubits) - 1)}
    \cup {Mtrx(NewQBdt(ParQubits, k), HadamardMtrx, 0) : k \in 0 .. (pow2(ParQubits) - 1)}

PInit ==
    /\ \E r \in ParInputs, mtrx \in {HadamardMtrx, PauliXMtrx}, target \in 1 .. (ParQubits - 1) :
           LET a == AllocNode(<<>>, r.root)
           IN  /\ heap = a.h
               /\ proot = a.id
               /\ pmtrx = mtrx
               /\ ptarget = target
               /\ pexpected = Mtrx(r, mtrx, target).root
    /\ nextIdx = 0
    /\ pc = [w \in Workers |-> "idle"]
    /\ widx = [w \in Workers |-> 0]
    /\ wleaf = [w \in Workers |-> 0]
    /\ wj = [w \in Workers |-> 0]
    /\ written = {}
    /\ presult = ZeroNode
    /\ pjoined = FALSE

\* par_for_qbdt gives worker w the next index; the lambda starts at the root
ParTake(w) ==
    /\ pc[w] = "idle" /\ nextIdx < pow2(ptarget)
    /\ widx' = [widx EXCEPT ![w] = nextIdx]
    /\ nextIdx' = nextIdx + 1
    /\ wleaf' = [wleaf EXCEPT ![w] = proot]
    /\ wj' = [wj EXCEPT ![w] = 0]
    /\ pc' = [pc EXCEPT ![w] = "walk"]
    /\ UNCHANGED <<heap, proot, pmtrx, ptarget, pexpected, written, presult, pjoined>>
    /\ UNCHANGED <<mvars, bvars, acs, rq>>

\* "Iterate to qubit depth": the test of the scale and leaf->Branch()
ParBranch(w) ==
    /\ pc[w] = "walk" /\ wj[w] < ptarget
    /\ IF IS_NORM_0(heap[wleaf[w]].scale)
       THEN /\ nextIdx' = IF nextIdx <= widx[w] + pow2(ptarget - wj[w]) - 1
                          THEN widx[w] + pow2(ptarget - wj[w])
                          ELSE nextIdx
            /\ pc' = [pc EXCEPT ![w] = "idle"]
            /\ UNCHANGED <<heap, written>>
       ELSE /\ heap' = HeapBranch(heap, wleaf[w])
            /\ written' = written \cup {<<wleaf[w], w>>}
            /\ pc' = [pc EXCEPT ![w] = "descend"]
            /\ UNCHANGED nextIdx
    /\ UNCHANGED <<proot, pmtrx, ptarget, pexpected, widx, wleaf, wj, presult, pjoined>>
    /\ UNCHANGED <<mvars, bvars, acs, rq>>

\* leaf = leaf->branches[SelectBit(i, maxQubit - (j + 1))]
ParDescend(w) ==
    /\ pc[w] = "descend"
    /\ wleaf' = [wleaf EXCEPT ![w] =
                    IF SelectBit(widx[w], ptarget - (wj[w] + 1)) = 1
                    THEN heap[wleaf[w]].b1 ELSE heap[wleaf[w]].b0]
    /\ wj' = [wj EXCEPT ![w] = wj[w] + 1]
    /\ pc' = [pc EXCEPT ![w] = "walk"]
    /\ UNCHANGED <<heap, proot, pmtrx, ptarget, pexpected, nextIdx, widx, written,
                   presult, pjoined>>
    /\ UNCHANGED <<mvars, bvars, acs, rq>>

\* the end of the lambda: leaf->Apply2x2(mtrx, bdtQubitCount - target)
ParApply(w) ==
    /\ pc[w] = "walk" /\ wj[w] = ptarget
    /\ IF IS_NORM_0(heap[wleaf[w]].scale)
       THEN UNCHANGED <<heap, written>>
       ELSE /\ heap' = HeapApply2x2(heap, wleaf[w], pmtrx, ParQubits - ptarget)
            /\ written' = written \cup {<<wleaf[w], w>>}
    /\ pc' = [pc EXCEPT ![w] = "idle"]
    /\ UNCHANGED <<proot, pmtrx, ptarget, pexpected, nextIdx, widx, wleaf, wj, presult, pjoined>>
    /\ UNCHANGED <<mvars, bvars, acs, rq>>

\* the workers have joined: root->Prune(maxQubit + 1)
ParJoin ==
    /\ ~pjoined /\ nextIdx >= pow2(ptarget) /\ \A w \in Workers : pc[w] = "idle"
    /\ presult' = Prune(ToNode(heap, proot), ptarget + 1)
    /\ pjoined' = TRUE
    /\ UNCHANGED <<heap, proot, pmtrx, ptarget, pexpected, nextIdx, pc, widx, wleaf, wj, written>>
    /\ UNCHANGED <<mvars, bvars, acs, rq>>

\* no parallel call beside the other parts
PIdle ==
    /\ heap = <<>> /\ proot = 0 /\ pmtrx = HadamardMtrx /\ ptarget = 0
    /\ pexpected = ZeroNode /\ nextIdx = 0
    /\ pc = [w \in Workers |-> "idle"] /\ widx = [w \in Workers |-> 0]
    /\ wleaf = [w \in Workers |-> 0] /\ wj = [w \in Workers |-> 0]
    /\ written = {} /\ presult = ZeroNode /\ pjoined = FALSE

PNext ==
    \/ \E w \in Workers : ParTake(w)
    \/ \E w \in Workers : ParBranch(w)
    \/ \E w \in Workers : ParDescend(w)
    \/ \E w \in Workers : ParApply(w)
    \/ ParJoin

\* the gates and the measurements of the QBdt

(***************************************************************************)
(* The loop of one ApplyControlledSingle call on a tree of SkipQubits      *)
(* qubits, one index of par_for_qbdt at a time.                            *)
(***************************************************************************)
\* the tree qubits of the register of the call
SkipQubits == 4

\* Hadamard on every qubit of S, one Mtrx call each
RECURSIVE MtrxOn(_, _)
MtrxOn(r, S) ==
    IF S = {} THEN r
    ELSE LET q == CHOOSE x \in S : TRUE
         IN  MtrxOn(Mtrx(r, HadamardMtrx, q), S \ {q})

\* the registers the call starts from
SkipInputs ==
    {MtrxOn(NewQBdt(SkipQubits, k), S) :
        k \in 0 .. (pow2(SkipQubits) - 1),
        S \in {{}, {1}, 0 .. (SkipQubits - 1)}}

\* ApplyControlledSingle up to its loop: the sort, the swap, the mask
AInit ==
    \E r0 \in SkipInputs, controls \in SUBSET (0 .. (SkipQubits - 1)) :
    \E target0 \in (0 .. (SkipQubits - 1)) \ controls :
        /\ controls # {} /\ Cardinality(controls) <= MaxControls
        /\ LET back == SetMax(controls)
               isSwapped == target0 < back /\ target0 < r0.bdtQubitCount
               r == IF isSwapped THEN Swap(r0, target0, back) ELSE r0
               target == IF isSwapped THEN back ELSE target0
               controlVec == IF isSwapped THEN (controls \ {back}) \cup {target0} ELSE controls
               op == ACSOp(r, HadamardMtrx, controlVec, target)
           IN  acs = [root |-> r.root, init |-> r.root, op |-> op, i |-> 0,
                      applied |-> [k \in 0 .. (pow2(op.maxQubit) - 1) |-> 0],
                      done |-> FALSE]

\* one turn of the loop of par_for_qbdt: the lambda on index i, then i goes
\* past the range the lambda returned
SkipStep ==
    /\ ~acs.done /\ acs.i < pow2(acs.op.maxQubit)
    /\ LET v == ACSBody(acs.root, acs.i, acs.op)
       IN  acs' = [acs EXCEPT !.root = v.node,
                              !.i = acs.i + v.skip + 1,
                              !.applied[acs.i] = IF ACSApplies(acs.root, acs.i, acs.op)
                                                 THEN @ + 1 ELSE @]
    /\ UNCHANGED <<mvars, bvars, pvars, rq>>

\* the loop has ended: root->Prune(maxQubit + 1)
SkipEnd ==
    /\ ~acs.done /\ acs.i >= pow2(acs.op.maxQubit)
    /\ acs' = [acs EXCEPT !.root = Prune(acs.root, acs.op.maxQubit + 1), !.done = TRUE]
    /\ UNCHANGED <<mvars, bvars, pvars, rq>>

\* no ApplyControlledSingle loop beside the other parts
AIdle == acs = [root |-> ZeroNode, init |-> ZeroNode, op |-> <<>>, i |-> 0,
                applied |-> <<>>, done |-> TRUE]

SkipNext == SkipStep \/ SkipEnd

(***************************************************************************)
(* The loop of RedistributeQEngines, one engine per step                   *)
(***************************************************************************)
\* the engines of the register the call runs on, and the qubits they hold
PlaceEngines == 3
PlaceQubits == 6

NoInfo == [unit |-> 0, deviceIndex |-> 0]

\* The inputs: a device list as the constructor leaves it, up to PlaceEngines
\* engines residing on devices of the list (an engine on a device other than
\* the default one fits it), and a result of GetQInfos for them.
RInit ==
    /\ \E n \in 1 .. MaxDevices : \E maxSizes \in [1 .. n -> DeviceSizes] :
       \E ocl \in 0 .. (n - 1) :
           /\ oclDefault = ocl
           /\ deviceList \in ConstructDeviceList(maxSizes, ocl)
    /\ subEngine \in {"HYBRID", "OPENCL"}
    /\ shards = [q \in Qubits |-> q + 1]
    /\ units = [u \in UnitIds |-> [qubits |-> 1, dev |-> oclDefault]]
    /\ mlast = [op |-> "init", unit |-> 0, exceeded |-> FALSE, moved |-> FALSE,
                largest |-> FALSE, redistributed |-> FALSE, called |-> FALSE]
    /\ \E k \in 1 .. PlaceEngines : \E qs \in [1 .. k -> 1 .. 3] :
       \E ds \in [1 .. k -> 0 .. (DevCount - 1)] :
           LET us == [u \in UnitIds |->
                         IF u <= k THEN [qubits |-> qs[u], dev |-> Dev(ds[u]).id]
                         ELSE [qubits |-> 0, dev |-> 0]]
           IN  /\ SumQubits(us, 1 .. k) <= PlaceQubits
               /\ \A u \in 1 .. k : ds[u] # 0 => pow2(qs[u]) <= Dev(ds[u]).maxSize
               /\ \E qinfos \in SortedOrders(us, {[unit |-> u, deviceIndex |-> ds[u]] :
                                                    u \in 1 .. k}) :
                      rq = [st |-> [us |-> us,
                                    devSizes |-> [d \in 0 .. (DevCount - 1) |-> 0]],
                            before |-> [us |-> us,
                                        devSizes |-> [d \in 0 .. (DevCount - 1) |-> 0]],
                            qinfos |-> qinfos, info |-> NoInfo, i |-> 1, done |-> FALSE]

\* one pass of the loop over qinfos
PlaceStep ==
    /\ ~rq.done /\ DevCount > 1 /\ rq.i <= Len(rq.qinfos)
    /\ rq' = [rq EXCEPT !.st = PlaceUnit(rq.st, rq.qinfos[rq.i]),
                        !.before = rq.st,
                        !.info = rq.qinfos[rq.i],
                        !.i = rq.i + 1]
    /\ UNCHANGED <<mvars, bvars, pvars, acs>>

\* the return: at once with a single device, else when the loop is over
PlaceEnd ==
    /\ ~rq.done /\ (DevCount = 1 \/ rq.i > Len(rq.qinfos))
    /\ rq' = [rq EXCEPT !.done = TRUE]
    /\ UNCHANGED <<mvars, bvars, pvars, acs>>

RIdle ==
    rq = [st |-> <<>>, before |-> <<>>, qinfos |-> <<>>, info |-> NoInfo, i |-> 1,
          done |-> TRUE]

PlaceNext == PlaceStep \/ PlaceEnd

GateInit == BInit /\ PIdle /\ AIdle /\ RIdle
SpecBdt == GateInit /\ [][GateNext]_vars

\* the operations that change the shape of the QBdt
ShapeInit == BInit /\ PIdle /\ AIdle /\ RIdle
SpecShape == ShapeInit /\ [][ShapeNext]_vars

\* the QUnitMulti alone
MultiInit == MInit /\ BIdle /\ PIdle /\ AIdle /\ RIdle
SpecMulti == MultiInit /\ [][MNext]_vars

\* the workers of one Mtrx call
ParInit == PInit /\ MIdle /\ BIdle /\ AIdle /\ RIdle
SpecPar == ParInit /\ [][PNext]_vars

\* the loop of one ApplyControlledSingle call
SkipInit == AInit /\ MIdle /\ BIdle /\ PIdle /\ RIdle
SpecSkip == SkipInit /\ [][SkipNext]_vars

PlaceInit == RInit /\ BIdle /\ PIdle /\ AIdle
SpecPlace == PlaceInit /\ [][PlaceNext]_vars

\* no node has been written by two workers
NoTwoWriters == \A x \in written, y \in written : x[1] = y[1] => x[2] = y[2]

\* the tree after the join is the tree of the loop run for i = 0, 1, ... in turn
ResultIsSequential == presult = pexpected

\* C10: when the workers of one Mtrx call have joined, no node has been
\* written by two workers, and the tree is the tree the loop gives when its
\* body runs for i = 0 .. 2^target - 1 in turn.
C10_ParallelEqualsSequential == pjoined => (NoTwoWriters /\ ResultIsSequential)

\* C11: when the loop of ApplyControlledSingle has ended, the matrix has been
\* applied once on every index whose control bits are all 1 and whose path
\* has no zero scale, and on no other index.
C11_ControlledPathsVisitedOnce ==
    acs.done =>
        \A k \in DOMAIN acs.applied :
            acs.applied[k] =
                IF /\ BitAnd(k, acs.op.lowControlMask) = acs.op.lowControlMask
                   /\ GateReaches(acs.init, k, 0, acs.op.maxQubit)
                THEN 1 ELSE 0

\* C12: in every state of a well-formed register, whatever the buffer held
\* before, GetQuantumState leaves GetAmplitude(i) in entry i and GetProbs
\* leaves ProbAll(i) in entry i, for every i below 2^qubitCount.
C12_ReadersAgree ==
    WellFormed(reg) =>
        \A buf \in OutBuffers(reg.qubitCount) : \A i \in 0 .. (pow2(reg.qubitCount) - 1) :
            /\ GetQuantumState(reg, buf)[i + 1] = GetAmplitude(reg, i)
            /\ GetProbs(reg, buf)[i + 1] = ProbAll(reg, i)

\* every attached leaf below node that nonzero scales lead to, depth levels
\* down, holds an engine of aqb qubits
RECURSIVE AttachedLeavesHold(_, _, _)
AttachedLeavesHold(node, depth, aqb) ==
    IF IS_NORM_0(node.scale) THEN TRUE
    ELSE IF depth = 0 \/ node.branches = <<>>
    THEN node.qReg # <<>> /\ EngQubitCount(node.qReg) = aqb
    ELSE /\ AttachedLeavesHold(Br(node, 0), depth - 1, aqb)
         /\ AttachedLeavesHold(Br(node, 1), depth - 1, aqb)

\* C13: right after an Attach, the first or a later one, every attached leaf
\* that nonzero scales lead to holds an engine of attachedQubitCount qubits
\* (a later Attach has composed the new engine into each engine once).
C13_AttachedEnginesHoldAttachedQubits ==
    last.op = "Attach" =>
        AttachedLeavesHold(reg.root, reg.bdtQubitCount, reg.attachedQubitCount)

\* C14: when Detach, SeparateBit or Clone of the QUnitMulti returns,
\* RedistributeQEngines has been called after the operation of the base class.
C14_RedistributeAfterBaseCall ==
    mlast.op \in {"detach", "separate", "clone"} => mlast.called

\* C15: when RedistributeQEngines has placed an engine it does not skip,
\* whose current device had a load above zero, while the load of the default
\* device was at most that load (equal loads included) and no other device
\* that the engine fits had a load strictly below the default device's, the
\* engine resides on the default device.
C15_TieGoesToDefault ==
    LET u == rq.info.unit
        st == rq.before
    IN  (/\ u # 0
         /\ ~SkipUnit(st.us, u)
         /\ st.devSizes[rq.info.deviceIndex] > 0
         /\ st.devSizes[0] <= st.devSizes[rq.info.deviceIndex]
         /\ ~\E j \in 1 .. (DevCount - 1) :
                /\ st.devSizes[j] < st.devSizes[0]
                /\ st.devSizes[j] + GetMaxQPower(st.us, u) <= Dev(j).maxSize)
        => rq.st.us[u].dev = Dev(0).id

\* C16: GetQInfos returns one entry for each engine some shard refers to, no
\* entry for a null unit and no engine twice, and the entries are in order of
\* engine size, none smaller than the one after it.
C16_OneEntryPerEngineLargestFirst ==
    /\ GetQInfos(shards, units) # {}
    /\ \A qinfos \in GetQInfos(shards, units) :
           /\ \A k \in DOMAIN qinfos : qinfos[k].unit \in LiveUnits(shards)
           /\ \A u \in LiveUnits(shards) :
                  Cardinality({k \in DOMAIN qinfos : qinfos[k].unit = u}) = 1
           /\ \A k \in 1 .. (Len(qinfos) - 1) :
                  units[qinfos[k].unit].qubits >= units[qinfos[k + 1].unit].qubits

\* C16 witness: after a Detach that ran RedistributeQEngines, the register has
\* a null shard, its first shard is an engine of one qubit, and two later
\* shards share a larger engine.
C16_Witness ==
    /\ mlast.op = "detach" /\ mlast.redistributed
    /\ \E q \in Qubits : shards[q] = 0
    /\ units[shards[0]].qubits = 1
    /\ \E p, q \in Qubits : p # q /\ shards[p] # 0 /\ shards[p] = shards[q]

====
